---- MODULE Spec2Model ----
(***************************************************************************)
(* A model of src/data/clean_dataset.py: the LendingClub cleaning pipeline *)
(* add_target_variable -> fix_missing_values -> remove_future_columns ->   *)
(* fix_dtypes, run by clean_dataset / clean_dataset_main.                  *)
(*                                                                         *)
(* A DataFrame is [columns |-> set of column names,                        *)
(*                 rows    |-> sequence of [index |-> label, v |-> cells]] *)
(* where cells maps every column name to a cell.  A cell is a tagged       *)
(* record: NA (pandas NaN), StrCell, IntCell, BoolCell or DateCell.  Strings   *)
(* are TLA+ strings; Len and SubSeq act on them character by character.    *)
(* Column dtypes are not modelled (a column is the sequence of its cells). *)
(***************************************************************************)
EXTENDS Integers, Sequences, FiniteSets, TLC

VARIABLES
    raw,         \* the table read from input_file (pd.read_csv), never changed
    dictionary,  \* the rows of references/LCDataDictionary.xlsx
    dropError,   \* the exception class DataFrame.drop raises for unknown labels
    df,          \* the table threaded through the stages
    pc,          \* position in clean_dataset_main
    log,         \* the logger.info messages emitted so far
    error,       \* the exception that left clean_dataset_main ("none" if none did)
    output       \* the content of output_file (NoFile until to_csv ran)

vars == <<raw, dictionary, dropError, df, pc, log, error, output>>

----------------------------------------------------------------------------
(* Cells *)

NA == [t |-> "na"]
StrCell(s) == [t |-> "str", s |-> s]
IntCell(n) == [t |-> "int", n |-> n]
BoolCell(b) == [t |-> "bool", b |-> b]
DateCell(s) == [t |-> "date", s |-> s]

\* Series.isna()
isna(c) == c.t = "na"

\* Series == "literal"  (NaN == "literal" is False)
EqStr(c, s) == c.t = "str" /\ c.s = s

\* Series.isin(values)
isin(c, values) == c.t = "str" /\ c.s \in values

----------------------------------------------------------------------------
(* Strings *)

Min(a, b) == IF a < b THEN a ELSE b

\* Python s[a:b] for 0 <= a <= b (0-based, half-open, clamped to the length)
Slice(s, a, b) == IF a >= Min(b, Len(s)) THEN "" ELSE SubSeq(s, a + 1, Min(b, Len(s)))

\* Python `sub in s`
Contains(sub, s) ==
    \E i \in 1..(Len(s) - Len(sub) + 1) : SubSeq(s, i, i + Len(sub) - 1) = sub

\* Python s.startswith(prefix)
StartsWith(s, prefix) == Len(s) >= Len(prefix) /\ SubSeq(s, 1, Len(prefix)) = prefix

UpperCase == "ABCDEFGHIJKLMNOPQRSTUVWXYZ"
LowerCase == "abcdefghijklmnopqrstuvwxyz"

UpperChar(c) ==
    IF \E i \in 1..Len(LowerCase) : SubSeq(LowerCase, i, i) = c
    THEN LET i == CHOOSE j \in 1..Len(LowerCase) : SubSeq(LowerCase, j, j) = c
         IN SubSeq(UpperCase, i, i)
    ELSE c

RECURSIVE Upper(_)
Upper(s) == IF Len(s) = 0 THEN "" ELSE UpperChar(SubSeq(s, 1, 1)) \o Upper(Slice(s, 1, Len(s)))

\* a lower-case literal alternative of a case=False regex, found anywhere in
\* s: every character of s may be the literal's character in either case
ContainsIgnoreCase(sub, s) ==
    LET up == Upper(sub)
    IN \E i \in 1..(Len(s) - Len(sub) + 1) :
          \A k \in 1..Len(sub) :
              \/ SubSeq(s, i + k - 1, i + k - 1) = SubSeq(sub, k, k)
              \/ SubSeq(s, i + k - 1, i + k - 1) = SubSeq(up, k, k)

Digits == "0123456789"
IsDigit(c) == \E d \in 0..9 : SubSeq(Digits, d + 1, d + 1) = c
DigitVal(c) == CHOOSE d \in 0..9 : SubSeq(Digits, d + 1, d + 1) = c

RECURSIVE LStrip(_)
LStrip(s) == IF Len(s) > 0 /\ SubSeq(s, 1, 1) = " " THEN LStrip(Slice(s, 1, Len(s))) ELSE s

RECURSIVE RStrip(_)
RStrip(s) == IF Len(s) > 0 /\ SubSeq(s, Len(s), Len(s)) = " " THEN RStrip(Slice(s, 0, Len(s) - 1)) ELSE s

RECURSIVE DigitsVal(_)
DigitsVal(s) == IF Len(s) = 0 THEN 0
                ELSE 10 * DigitsVal(Slice(s, 0, Len(s) - 1)) + DigitVal(SubSeq(s, Len(s), Len(s)))

\* int(s) as astype(int) applies it to each string of an object column:
\* surrounding blanks are ignored, one sign is allowed, the rest must be
\* decimal digits (at least one); anything else raises ValueError.
IntSigned(s) == Len(s) > 0 /\ (SubSeq(s, 1, 1) = "-" \/ SubSeq(s, 1, 1) = "+")
IntBody(s) == LET t == RStrip(LStrip(s)) IN IF IntSigned(t) THEN Slice(t, 1, Len(t)) ELSE t
IntOk(s) == Len(IntBody(s)) > 0 /\ \A i \in 1..Len(IntBody(s)) : IsDigit(SubSeq(IntBody(s), i, i))
IntVal(s) == LET t == RStrip(LStrip(s))
             IN IF Len(t) > 0 /\ SubSeq(t, 1, 1) = "-" THEN 0 - DigitsVal(IntBody(s)) ELSE DigitsVal(IntBody(s))

----------------------------------------------------------------------------
(* DataFrames *)

\* the result of a stage: the table it returns, or the exception it raised
Ok(d) == [ok |-> TRUE, df |-> d, err |-> "none"]
Raise(e, d) == [ok |-> FALSE, df |-> d, err |-> e]

\* df.drop(columns = cols) when every name of cols is a column of d
DropColumns(d, cols) ==
    [columns |-> d.columns \ cols,
     rows |-> [i \in 1..Len(d.rows) |->
                 [index |-> d.rows[i].index, v |-> [c \in d.columns \ cols |-> d.rows[i].v[c]]]]]

\* df[cols] = df[cols].fillna(value)
FillNa(d, cols, value) ==
    [columns |-> d.columns,
     rows |-> [i \in 1..Len(d.rows) |->
                 [index |-> d.rows[i].index,
                  v |-> [c \in d.columns |->
                           IF c \in cols /\ isna(d.rows[i].v[c]) THEN value ELSE d.rows[i].v[c]]]]]

\* df.drop(labels, inplace = True): removes every row whose index label is in labels
DropRows(d, labels) == [d EXCEPT !.rows = SelectSeq(d.rows, LAMBDA r : r.index \notin labels)]

\* df.columns[df.isna().any()]
ColumnsWithNa(d) == {c \in d.columns : \E i \in 1..Len(d.rows) : isna(d.rows[i].v[c])}

----------------------------------------------------------------------------
(* add_target_variable *)

default_client_values ==
    {"Charged Off", "Default", "Does not meet the credit policy. Status:Charged Off",
     "Late (31-120 days)"}

non_default_client_values ==
    {"Fully Paid", "Does not meet the credit policy. Status:Fully Paid"}

target_values == default_client_values \cup non_default_client_values

\* a mutant of TargetCell: the flag set from the whole allow-list
TargetCell_AllowList(r) == BoolCell(isin(r.v["loan_status"], target_values))

\* df["target"] = df["loan_status"].isin(default_client_values)
TargetCell(r) == BoolCell(isin(r.v["loan_status"], default_client_values))

\* df[df["loan_status"].isin(target_values)]
StatusKept(r) == isin(r.v["loan_status"], target_values)

\* d with the target column added (or overwritten)
WithTarget(d) ==
    [columns |-> d.columns \cup {"target"},
     rows |-> [i \in 1..Len(d.rows) |->
                 [index |-> d.rows[i].index,
                  v |-> [c \in d.columns \cup {"target"} |->
                           IF c = "target" THEN TargetCell(d.rows[i]) ELSE d.rows[i].v[c]]]]]

add_target_variable(d) ==
    IF "loan_status" \notin d.columns THEN Raise("KeyError", d)
    ELSE Ok(DropColumns([columns |-> WithTarget(d).columns,
                         rows |-> SelectSeq(WithTarget(d).rows, StatusKept)],
                        {"loan_status"}))

----------------------------------------------------------------------------
(* remove_future_columns *)

future_cols ==
    {"collection_recovery_fee", "funded_amnt", "funded_amnt_inv", "out_prncp", "out_prncp_inv",
     "recoveries", "total_pymnt", "total_pymnt_inv", "total_rec_int", "total_rec_late_fee",
     "total_rec_prncp"}

\* a mutant of remove_future_columns: the drop given errors = 'ignore'
remove_future_columns_Ignore(d) == Ok(DropColumns(d, future_cols \cap d.columns))

\* df.drop(columns = cols, inplace = True): KeyError when a label is not a column
remove_future_columns(d) ==
    IF future_cols \subseteq d.columns THEN Ok(DropColumns(d, future_cols))
    ELSE Raise("KeyError", d)

----------------------------------------------------------------------------
(* fix_dtypes *)

\* Series.str[a:b]: the slice of a string, NaN for anything else
StrSlice(c, a, b) == IF c.t = "str" THEN StrCell(Slice(c.s, a, b)) ELSE NA

\* Series.astype(int) on one cell: int(str) for a string, ValueError for NaN
AsTypeIntOk(c) == (c.t = "str" /\ IntOk(c.s)) \/ c.t = "int"
AsTypeInt(c) == IF c.t = "str" THEN IntCell(IntVal(c.s)) ELSE c

\* a mutant of TermDigits: the slice taken from the first character
TermDigits_FromStart(c) == StrSlice(c, 0, 2)

\* df["term"].str[1:3]
TermDigits(c) == StrSlice(c, 1, 3)

\* df["term"] == "36 months"
Is36MonthTerm(c) == EqStr(c, "36 months")

\* df["emp_length"].replace({"10+ years": "10 years", "< 1 year": "0 years"})
EmpLengthReplace(c) ==
    IF EqStr(c, "10+ years") THEN StrCell("10 years")
    ELSE IF EqStr(c, "< 1 year") THEN StrCell("0 years")
    ELSE c

\* a mutant of EmpLengthDigits: the slice one character short
EmpLengthDigits_OneChar(c) == StrSlice(EmpLengthReplace(c), 0, 1)

\* df["emp_length"].str[:2]
EmpLengthDigits(c) == StrSlice(EmpLengthReplace(c), 0, 2)

Months == {"Jan", "Feb", "Mar", "Apr", "May", "Jun", "Jul", "Aug", "Sep", "Oct", "Nov", "Dec"}

\* pd.to_datetime on one cell, for the "Mon-YYYY" strings of the LendingClub
\* files: NaN becomes NaT, a string of another shape is taken as unparseable.
ToDatetimeOk(c) ==
    \/ isna(c)
    \/ /\ c.t = "str"
       /\ Len(c.s) = 8
       /\ SubSeq(c.s, 1, 3) \in Months
       /\ SubSeq(c.s, 4, 4) = "-"
       /\ \A i \in 5..8 : IsDigit(SubSeq(c.s, i, i))
ToDatetime(c) == IF c.t = "str" THEN DateCell(c.s) ELSE c

dtype_flag_sources ==
    {"pymnt_plan", "initial_list_status", "application_type", "term", "disbursement_method"}
dtype_flag_cols ==
    {"is_payment_plan", "is_whole_loan", "is_individual_app", "is_36_month_term",
     "term_months", "is_cash"}
datetime_cols == {"issue_d", "earliest_cr_line"}
category_cols ==
    {"grade", "sub_grade", "home_ownership", "verification_status", "purpose", "addr_state"}
uninformative_cols == {"emp_title", "desc", "title", "zip_code"}

\* the cell of column c of a row after fix_dtypes
DtypeCell(r, c) ==
    CASE c = "is_payment_plan" -> BoolCell(EqStr(r.v["pymnt_plan"], "y"))
      [] c = "is_whole_loan" -> BoolCell(EqStr(r.v["initial_list_status"], "w"))
      [] c = "is_individual_app" -> BoolCell(EqStr(r.v["application_type"], "Individual"))
      [] c = "is_36_month_term" -> BoolCell(Is36MonthTerm(r.v["term"]))
      [] c = "term_months" -> AsTypeInt(TermDigits(r.v["term"]))
      [] c = "is_cash" -> BoolCell(EqStr(r.v["disbursement_method"], "Cash"))
      [] c \in datetime_cols -> ToDatetime(r.v[c])
      [] c = "emp_length" -> AsTypeInt(EmpLengthDigits(r.v[c]))
      [] OTHER -> r.v[c]

fix_dtypes_columns(d) ==
    ((d.columns \cup dtype_flag_cols) \ dtype_flag_sources) \ uninformative_cols

\* every value of the column converts: astype(int), pd.to_datetime
TermConverts(d) == \A i \in 1..Len(d.rows) : AsTypeIntOk(TermDigits(d.rows[i].v["term"]))
EmpLengthConverts(d) ==
    \A i \in 1..Len(d.rows) : AsTypeIntOk(EmpLengthDigits(d.rows[i].v["emp_length"]))
DatesConvert(d) ==
    \A i \in 1..Len(d.rows) : \A c \in datetime_cols : ToDatetimeOk(d.rows[i].v[c])

fix_dtypes(d) ==
    IF ~(dtype_flag_sources \subseteq d.columns) THEN Raise("KeyError", d)
    ELSE IF ~TermConverts(d) THEN Raise("ValueError", d)
    ELSE IF ~(datetime_cols \subseteq d.columns) THEN Raise("KeyError", d)
    ELSE IF ~DatesConvert(d) THEN Raise("ValueError", d)
    ELSE IF ~(category_cols \subseteq d.columns) THEN Raise("KeyError", d)
    ELSE IF "emp_length" \notin d.columns THEN Raise("KeyError", d)
    ELSE IF ~EmpLengthConverts(d) THEN Raise("ValueError", d)
    ELSE IF ~(uninformative_cols \subseteq d.columns) THEN Raise("KeyError", d)
    ELSE Ok([columns |-> fix_dtypes_columns(d),
             rows |-> [i \in 1..Len(d.rows) |->
                         [index |-> d.rows[i].index,
                          v |-> [c \in fix_dtypes_columns(d) |-> DtypeCell(d.rows[i], c)]]]])

----------------------------------------------------------------------------
(* fix_missing_values *)

all_values_missing == {"id", "member_id", "url"}

\* pd.read_excel(...).dropna(): the dictionary rows with no missing value
DictionaryRows(dict) ==
    {e \in dict : ~isna(e.LoanStatNew) /\ ~isna(e.Description)}

\* Description.str.contains("settle|hardship", regex=True, case=False)
is_settlement_or_hardship(e) ==
    ContainsIgnoreCase("settle", e.Description.s) \/ ContainsIgnoreCase("hardship", e.Description.s)

settlement_cols(dict) ==
    {e.LoanStatNew.s : e \in {x \in DictionaryRows(dict) : is_settlement_or_hardship(x)}}

\* try: df.drop(columns = settlement_cols)
\* except ValueError: df.drop(columns = settlement_cols, errors = 'ignore')
\* DataFrame.drop raises err for a label that is no column; only a ValueError
\* reaches the handler, any other exception leaves fix_missing_values.
drop_settlement(d, cols, err) ==
    IF cols \subseteq d.columns THEN Ok(DropColumns(d, cols))
    ELSE IF err = "ValueError" THEN Ok(DropColumns(d, cols \cap d.columns))
    ELSE Raise(err, d)

\* a mutant of joint_columns: the second substring forgotten
joint_columns_JointOnly(d) == {x \in d.columns : Contains("joint", x)}

joint_columns(d) == {x \in d.columns : Contains("joint", x) \/ Contains("sec_app", x)}

\* df[df["application_type"] != "Individual"].index
non_individual_index(d) ==
    {d.rows[i].index : i \in {j \in 1..Len(d.rows) : ~EqStr(d.rows[j].v["application_type"], "Individual")}}

num_cols(d) == {x \in ColumnsWithNa(d) : StartsWith(x, "num_")}
util_cols(d) == {x \in ColumnsWithNa(d) : Contains("_util", x)}
\* computed and never used
date_cols(d) == {x \in ColumnsWithNa(d) : Contains("_d", x)}

flag_cols ==
    {"max_bal_bc", "open_acc_6m", "open_act_il", "open_il_12m",
     "open_il_24m", "total_bal_il", "open_rv_24m", "open_rv_12m",
     "inq_last_12m", "inq_fi", "total_cu_tl"}

low_freq_cols ==
    {"tot_cur_bal", "tot_coll_amt", "emp_length", "avg_cur_bal", "tax_liens", "total_rev_hi_lim",
     "total_il_high_credit_limit", "tot_hi_cred_lim", "pct_tl_nvr_dlq", "percent_bc_gt_75",
     "bc_open_to_buy", "mort_acc", "acc_open_past_24mths", "total_bc_limit", "total_bal_ex_mort",
     "pub_rec_bankruptcies", "collections_12_mths_ex_med", "chargeoff_within_12_mths"}

recency_cols ==
    {"mo_sin_rcnt_rev_tl_op", "mo_sin_rcnt_tl",
     "mths_since_recent_inq", "mo_sin_old_rev_tl_op",
     "mo_sin_old_il_acct", "mths_since_recent_bc"}

cols_to_set_zero(d) == num_cols(d) \cup util_cols(d) \cup flag_cols \cup low_freq_cols \cup recency_cols

cols_to_drop ==
    {"next_pymnt_d", "last_pymnt_d", "last_pymnt_amnt", "last_credit_pull_d",
     "mths_since_rcnt_il", "mths_since_last_record",
     "mths_since_recent_bc_dlq", "mths_since_last_major_derog",
     "mths_since_recent_revol_delinq", "mths_since_last_delinq"}

\* the presence flags and the column each is derived from
presence_flags == {"has_public_record", "has_recent_bc_dlq", "has_major_derog",
                   "has_recent_revol_delinq", "has_recent_delinq"}

flag_source(f) ==
    CASE f = "has_public_record" -> "mths_since_last_record"
      [] f = "has_recent_bc_dlq" -> "mths_since_recent_bc_dlq"
      [] f = "has_major_derog" -> "mths_since_last_major_derog"
      [] f = "has_recent_revol_delinq" -> "mths_since_recent_revol_delinq"
      [] f = "has_recent_delinq" -> "mths_since_last_delinq"

flag_sources == {flag_source(f) : f \in presence_flags}

\* ~df[source].isna()
PresenceCell(c) == BoolCell(~isna(c))

\* lines 139-143: the five assignments, none of which reads a flag column
derive_flags(d) ==
    [columns |-> d.columns \cup presence_flags,
     rows |-> [i \in 1..Len(d.rows) |->
                 [index |-> d.rows[i].index,
                  v |-> [c \in d.columns \cup presence_flags |->
                           IF c \in presence_flags
                           THEN PresenceCell(d.rows[i].v[flag_source(c)])
                           ELSE d.rows[i].v[c]]]]]

\* lines 98-101
drop_joint(d) ==
    LET d1 == DropColumns(d, joint_columns(d))
    IN IF "application_type" \notin d1.columns THEN Raise("KeyError", d1)
       ELSE Ok(DropRows(d1, non_individual_index(d1)))

\* a mutant of resolve_remaining: the flag sources zero-filled with the rest,
\* and the flags derived after the fill
resolve_remaining_FillFirst(d) ==
    LET zero == cols_to_set_zero(d) \cup flag_sources
    IN IF ~(flag_sources \subseteq d.columns) THEN Raise("KeyError", d)
       ELSE IF ~(zero \subseteq (d.columns \cup presence_flags)) THEN Raise("KeyError", d)
       ELSE IF ~(cols_to_drop \subseteq (d.columns \cup presence_flags)) THEN Raise("KeyError", d)
       ELSE Ok(DropColumns(derive_flags(FillNa(d, zero, IntCell(0))), cols_to_drop))

\* lines 104-151, on the table left by the joint-application purge
resolve_remaining(d) ==
    LET zero == cols_to_set_zero(d)
    IN IF ~(flag_sources \subseteq d.columns) THEN Raise("KeyError", d)
       ELSE IF ~(zero \subseteq (d.columns \cup presence_flags)) THEN Raise("KeyError", d)
       ELSE IF ~(cols_to_drop \subseteq (d.columns \cup presence_flags)) THEN Raise("KeyError", d)
       ELSE Ok(DropColumns(FillNa(derive_flags(d), zero, IntCell(0)), cols_to_drop))

fix_missing_values(d, dict, err) ==
    IF ~(all_values_missing \subseteq d.columns) THEN Raise("KeyError", d)
    ELSE LET d1 == DropColumns(d, all_values_missing)
         IN IF "emp_length" \notin d1.columns THEN Raise("KeyError", d1)
            ELSE LET d2 == FillNa(d1, {"emp_length"}, StrCell("0 years"))
                     r3 == drop_settlement(d2, settlement_cols(dict), err)
                 IN IF ~r3.ok THEN r3
                    ELSE LET r4 == drop_joint(r3.df)
                         IN IF ~r4.ok THEN r4 ELSE resolve_remaining(r4.df)

----------------------------------------------------------------------------
(* The inputs: the raw file, the reference dictionary, the pandas in use *)

MaxRows == 2

\* columns the raw file may hold besides those the code names
other_cols ==
    {"loan_amnt", "dti", "num_sats", "bc_util", "annual_inc_joint", "sec_app_mort_acc",
     "hardship_flag", "debt_settlement_flag"}

AllColumns ==
    {"loan_status", "emp_length"} \cup all_values_missing \cup flag_cols \cup low_freq_cols
      \cup recency_cols \cup cols_to_drop \cup future_cols \cup dtype_flag_sources
      \cup datetime_cols \cup category_cols \cup uninformative_cols \cup other_cols

\* the raw file holds every column, or lacks one of these
MaybeAbsent == {"loan_status", "url", "total_pymnt", "mths_since_last_record", "zip_code"}
Schemas == {AllColumns} \cup {AllColumns \ {c} : c \in MaybeAbsent}

BaseRow ==
    [loan_status |-> StrCell("Fully Paid"), application_type |-> StrCell("Individual"),
     term |-> StrCell(" 36 months"), emp_length |-> StrCell("5 years"), missing |-> {}]

StatusInputs == <<"Current", "Charged Off">>
ApplicationInputs == <<"Joint App">>
TermInputs == <<" 60 months", "36 months", "136 months", "n/a">>
EmpLengthInputs ==
    <<NA, StrCell("10+ years"), StrCell("< 1 year"), StrCell("1 year"), StrCell("8 months"),
      StrCell("n/a")>>
MissingInputs ==
    <<{"mths_since_last_record"}, {"dti"},
      {"tot_cur_bal", "num_sats", "bc_util", "next_pymnt_d", "mths_since_recent_inq"},
      {"mths_since_recent_bc_dlq", "mths_since_last_major_derog",
       "mths_since_recent_revol_delinq", "mths_since_last_delinq"}>>

\* the kinds of row of the raw file: the base row changed in one respect
RowInputs ==
    <<BaseRow>>
    \o [i \in 1..Len(StatusInputs) |-> [BaseRow EXCEPT !.loan_status = StrCell(StatusInputs[i])]]
    \o [i \in 1..Len(ApplicationInputs) |->
          [BaseRow EXCEPT !.application_type = StrCell(ApplicationInputs[i])]]
    \o [i \in 1..Len(TermInputs) |-> [BaseRow EXCEPT !.term = StrCell(TermInputs[i])]]
    \o [i \in 1..Len(EmpLengthInputs) |-> [BaseRow EXCEPT !.emp_length = EmpLengthInputs[i]]]
    \o [i \in 1..Len(MissingInputs) |-> [BaseRow EXCEPT !.missing = MissingInputs[i]]]

\* the raw files: at most MaxRows rows, listed in the order of RowInputs (the
\* stages treat every row alike, whatever its position)
RawInputsOfLength(n) ==
    {[i \in 1..n |-> RowInputs[ks[i]]] :
        ks \in {f \in [1..n -> 1..Len(RowInputs)] : \A i \in 1..(n - 1) : f[i] <= f[i + 1]}}
RawInputs == UNION {RawInputsOfLength(n) : n \in 0..MaxRows}

text_cols == category_cols \cup uninformative_cols \cup {"hardship_flag", "debt_settlement_flag"}

RawCell(in, c) ==
    IF c \in in.missing THEN NA
    ELSE CASE c = "loan_status" -> in.loan_status
           [] c = "application_type" -> in.application_type
           [] c = "term" -> in.term
           [] c = "emp_length" -> in.emp_length
           [] c = "pymnt_plan" -> StrCell("n")
           [] c = "initial_list_status" -> StrCell("w")
           [] c = "disbursement_method" -> StrCell("Cash")
           [] c \in datetime_cols -> StrCell("Dec-2015")
           [] c \in all_values_missing -> NA
           [] c \in text_cols -> StrCell("x")
           [] OTHER -> IntCell(1)

\* pd.read_csv: the columns of the header, one row per line, index 0, 1, ...
read_csv(schema, ins) ==
    [columns |-> schema,
     rows |-> [i \in 1..Len(ins) |-> [index |-> i - 1, v |-> [c \in schema |-> RawCell(ins[i], c)]]]]

DictEntry(name, description) == [LoanStatNew |-> name, Description |-> description]

DictHardshipFlag ==
    DictEntry(StrCell("hardship_flag"),
              StrCell("On a Hardship plan"))
DictDebtSettlementFlag ==
    DictEntry(StrCell("debt_settlement_flag"),
              StrCell("Works with a debt-settlement company"))
DictSettlementTerm ==
    DictEntry(StrCell("settlement_term"),
              StrCell("Months on the settlement plan"))
DictHardshipType ==
    DictEntry(StrCell("hardship_type"), StrCell("Hardship plan offering"))
DictDti == DictEntry(StrCell("dti"), StrCell("Debt to income ratio"))
DictBlankName == DictEntry(NA, StrCell("Settlement status"))

\* the dictionary names only columns of the file; or also columns the file
\* lacks; or no hardship or settlement column at all
DefaultDictionary == {DictHardshipFlag, DictDebtSettlementFlag, DictDti, DictBlankName}
Dictionaries ==
    {DefaultDictionary,
     {DictHardshipFlag, DictDebtSettlementFlag, DictSettlementTerm, DictDti},
     {DictSettlementTerm, DictHardshipType, DictDti},
     {DictDti}}

\* DataFrame.drop with a label that is no column: KeyError since pandas 0.23,
\* ValueError before
DropErrors == {"KeyError", "ValueError"}

----------------------------------------------------------------------------
(* clean_dataset_main *)

NoTable == [columns |-> {}, rows |-> << >>]
NoFile == [written |-> FALSE]

\* df.to_csv(output_file, index = False)
to_csv(d) ==
    [written |-> TRUE, columns |-> d.columns,
     rows |-> [i \in 1..Len(d.rows) |-> d.rows[i].v]]

Init ==
    /\ \E schema \in Schemas, ins \in RawInputs : raw = read_csv(schema, ins)
    /\ dictionary \in Dictionaries
    /\ dropError \in DropErrors
    /\ (raw.columns = AllColumns \/ (dictionary = DefaultDictionary /\ dropError = "KeyError"))
    /\ df = NoTable
    /\ pc = "read"
    /\ log = << >>
    /\ error = "none"
    /\ output = NoFile

\* a mutant of Step: the exception of a stage swallowed, the run going on with
\* the table the stage left
Step_Swallow(res, next, before, after) ==
    /\ df' = res.df
    /\ pc' = next
    /\ log' = log \o before \o (IF res.ok THEN after ELSE << >>)
    /\ error' = "none"
    /\ UNCHANGED <<raw, dictionary, dropError, output>>

\* what a stage leaves behind: the next position and the messages logged after
\* it when it returned; when it raised, nothing catches the exception, which
\* leaves clean_dataset and clean_dataset_main
Step(res, next, before, after) ==
    /\ df' = res.df
    /\ pc' = IF res.ok THEN next ELSE "failed"
    /\ log' = log \o before \o (IF res.ok THEN after ELSE << >>)
    /\ error' = res.err
    /\ UNCHANGED <<raw, dictionary, dropError, output>>

\* lines 222-224
ReadCsv ==
    /\ pc = "read"
    /\ Step(Ok(raw), "label",
            <<"Preparing and cleaning dataset">>, <<"Input dataframe shape">>)

\* lines 189-192
AddTarget ==
    /\ pc = "label"
    /\ Step(add_target_variable(df), "resolve", <<"Adding target column">>,
            <<"Target variable counts", "Dataframe shape after adding target column">>)

\* lines 195-197, with the two messages of fix_missing_values
FixMissing ==
    /\ pc = "resolve"
    /\ Step(fix_missing_values(df, dictionary, dropError), "leakage",
            <<"Fixing missing values", "Columns with missing values before cleaning">>,
            <<"Columns with missing values after cleaning",
              "Dataframe shape after fixing missing values">>)

\* lines 200-201
RemoveFuture ==
    /\ pc = "leakage"
    /\ Step(remove_future_columns(df), "dtypes", <<"Removing 11 columns">>,
            <<"Dataframe shape after removing future columns">>)

\* lines 203-205
FixDtypes ==
    /\ pc = "dtypes"
    /\ Step(fix_dtypes(df), "save", <<"Fixing dtypes">>,
            <<"Dataframe shape after fixing dtypes">>)

\* lines 226-227
ToCsv ==
    /\ pc = "save"
    /\ output' = to_csv(df)
    /\ pc' = "done"
    /\ log' = Append(log, "Saving cleaned dataframe")
    /\ UNCHANGED <<raw, dictionary, dropError, df, error>>

Next == ReadCsv \/ AddTarget \/ FixMissing \/ RemoveFuture \/ FixDtypes \/ ToCsv

Spec == Init /\ [][Next]_vars

----------------------------------------------------------------------------
(* Properties *)

\* the row of the raw file that a row of a later table comes from
RawRow(r) == raw.rows[r.index + 1]

\* clean_dataset has returned its table, which df holds
Cleaned == pc \in {"save", "done"}

\* C1: the table add_target_variable returns holds exactly the input rows whose
\* status is in one of the two allow-lists, has no loan_status column, and has
\* a boolean target that is true iff the row's status was a defaulted one
\* ("Fully Paid" kept with False, "Charged Off" kept with True, "Current" removed).
C1_TargetLabeler ==
    pc = "resolve" =>
        /\ df.columns = (raw.columns \ {"loan_status"}) \cup {"target"}
        /\ Len(df.rows) =
              Cardinality({i \in 1..Len(raw.rows) : isin(raw.rows[i].v["loan_status"], target_values)})
        /\ \A i, j \in 1..Len(df.rows) : i < j => df.rows[i].index < df.rows[j].index
        /\ \A i \in 1..Len(df.rows) :
              LET r == df.rows[i]
                  status == RawRow(r).v["loan_status"]
              IN /\ isin(status, target_values)
                 /\ r.v["target"] = BoolCell(isin(status, default_client_values))
                 /\ EqStr(status, "Fully Paid") => r.v["target"] = BoolCell(FALSE)
                 /\ EqStr(status, "Charged Off") => r.v["target"] = BoolCell(TRUE)
                 /\ ~EqStr(status, "Current")
                 /\ \A c \in raw.columns \ {"loan_status"} : r.v[c] = RawRow(r).v[c]

\* a raw file with a "Current" row before a "Charged Off" row: only the second is kept
C1_Witness ==
    /\ pc = "resolve"
    /\ Len(raw.rows) = 2
    /\ EqStr(raw.rows[1].v["loan_status"], "Current")
    /\ EqStr(raw.rows[2].v["loan_status"], "Charged Off")
    /\ Len(df.rows) = 1
    /\ df.rows[1].index = 1
    /\ df.rows[1].v["target"] = BoolCell(TRUE)

\* C2: the table fix_missing_values returns has no missing value in any column
C2_NoMissingValues == pc = "leakage" => ColumnsWithNa(df) = {}

\* C3: "36 months" gives term_months 36 and is_36_month_term True, "60 months"
\* gives 60 and False, and is_36_month_term is true exactly when term_months = 36
C3_TermMapping ==
    Cleaned =>
        \A i \in 1..Len(df.rows) :
            LET r == df.rows[i]
                term == RawRow(r).v["term"]
            IN /\ EqStr(term, "36 months") =>
                     r.v["term_months"] = IntCell(36) /\ r.v["is_36_month_term"] = BoolCell(TRUE)
               /\ EqStr(term, "60 months") =>
                     r.v["term_months"] = IntCell(60) /\ r.v["is_36_month_term"] = BoolCell(FALSE)
               /\ r.v["is_36_month_term"] = BoolCell(r.v["term_months"] = IntCell(36))

\* the integer the claim gives a raw emp_length, -1 where it gives none
C4_Years(e) ==
    IF isna(e) THEN 0
    ELSE IF EqStr(e, "10+ years") THEN 10
    ELSE IF EqStr(e, "< 1 year") THEN 0
    ELSE IF EqStr(e, "1 year") THEN 1
    ELSE IF \E n \in 0..9 : EqStr(e, SubSeq(Digits, n + 1, n + 1) \o " years")
         THEN CHOOSE n \in 0..9 : EqStr(e, SubSeq(Digits, n + 1, n + 1) \o " years")
    ELSE 0 - 1

\* C4: through the whole pipeline emp_length ends as 10 for "10+ years", 0 for
\* "< 1 year", N for "N years" and "1 year", 0 for a missing value; the resolver
\* hands on text (the raw text, "0 years" for a missing value), never a number.
C4_EmpLength ==
    /\ pc = "leakage" =>
          \A i \in 1..Len(df.rows) :
              LET e == RawRow(df.rows[i]).v["emp_length"]
              IN df.rows[i].v["emp_length"] = (IF isna(e) THEN StrCell("0 years") ELSE e)
    /\ Cleaned =>
          \A i \in 1..Len(df.rows) :
              LET e == RawRow(df.rows[i]).v["emp_length"]
              IN C4_Years(e) # 0 - 1 => df.rows[i].v["emp_length"] = IntCell(C4_Years(e))

\* a cleaned table that kept a row with no emp_length and a "10+ years" row
C4_Witness ==
    /\ pc = "done"
    /\ Len(df.rows) = 2
    /\ isna(RawRow(df.rows[1]).v["emp_length"])
    /\ df.rows[1].v["emp_length"] = IntCell(0)
    /\ EqStr(RawRow(df.rows[2]).v["emp_length"], "10+ years")
    /\ df.rows[2].v["emp_length"] = IntCell(10)

\* C5: in the table the resolver returns, and in every later table, each of the
\* five presence flags of a row is NOT-missing of its source column as the
\* resolver received it (the labeler hands the raw cells on unchanged)
C5_PresenceFlags ==
    /\ pc = "resolve" =>
          \A i \in 1..Len(df.rows) : \A c \in flag_sources \cap raw.columns :
              df.rows[i].v[c] = RawRow(df.rows[i]).v[c]
    /\ pc \in {"leakage", "dtypes", "save", "done"} =>
          \A i \in 1..Len(df.rows) :
              LET r == df.rows[i]
              IN /\ r.v["has_public_record"] =
                       BoolCell(~isna(RawRow(r).v["mths_since_last_record"]))
                 /\ r.v["has_recent_bc_dlq"] =
                       BoolCell(~isna(RawRow(r).v["mths_since_recent_bc_dlq"]))
                 /\ r.v["has_major_derog"] =
                       BoolCell(~isna(RawRow(r).v["mths_since_last_major_derog"]))
                 /\ r.v["has_recent_revol_delinq"] =
                       BoolCell(~isna(RawRow(r).v["mths_since_recent_revol_delinq"]))
                 /\ r.v["has_recent_delinq"] =
                       BoolCell(~isna(RawRow(r).v["mths_since_last_delinq"]))
    /\ output.written =>
          \A i \in 1..Len(output.rows) :
              \A f \in presence_flags : output.rows[i][f] = df.rows[i].v[f]

\* a cleaned table with a row that had no mths_since_last_record (flag False)
\* and a row that had one (flag True)
C5_Witness ==
    /\ pc = "done"
    /\ \E i, j \in 1..Len(df.rows) :
          /\ isna(RawRow(df.rows[i]).v["mths_since_last_record"])
          /\ df.rows[i].v["has_public_record"] = BoolCell(FALSE)
          /\ df.rows[i].v["has_recent_delinq"] = BoolCell(TRUE)
          /\ ~isna(RawRow(df.rows[j]).v["mths_since_last_record"])
          /\ df.rows[j].v["has_public_record"] = BoolCell(TRUE)

\* C6: in the dynamic hardship/settlement drop, names that are no column of the
\* live table do not make the step fail: the names present are dropped, the
\* absent ones are skipped, and the resolver goes on
C6_DynamicDropTolerant ==
    (pc = "resolve" /\ all_values_missing \subseteq df.columns /\ "emp_length" \in df.columns) =>
        LET d2 == FillNa(DropColumns(df, all_values_missing), {"emp_length"}, StrCell("0 years"))
            cols == settlement_cols(dictionary)
            res == drop_settlement(d2, cols, dropError)
        IN res.ok /\ res.df.columns = d2.columns \ cols

\* C7: the table clean_dataset returns holds no row whose raw application_type
\* was not "Individual" and no column whose name contains "joint" or "sec_app"
C7_NoJointApplications ==
    /\ Cleaned =>
          /\ \A i \in 1..Len(df.rows) :
                EqStr(RawRow(df.rows[i]).v["application_type"], "Individual")
          /\ \A c \in df.columns : ~Contains("joint", c) /\ ~Contains("sec_app", c)
    /\ output.written =>
          /\ Len(output.rows) = Len(df.rows)
          /\ \A c \in output.columns : ~Contains("joint", c) /\ ~Contains("sec_app", c)

\* a raw file with an Individual row and a "Joint App" row, and columns of both
\* name patterns, cleaned to the single Individual row
C7_Witness ==
    /\ pc = "done"
    /\ {"annual_inc_joint", "sec_app_mort_acc"} \subseteq raw.columns
    /\ \E i, j \in 1..Len(raw.rows) :
          /\ EqStr(raw.rows[i].v["application_type"], "Individual")
          /\ EqStr(raw.rows[j].v["application_type"], "Joint App")
    /\ Len(df.rows) = 1
    /\ output.written

C8_PostOutcome ==
    {"collection_recovery_fee", "funded_amnt", "funded_amnt_inv", "out_prncp", "out_prncp_inv",
     "recoveries", "total_pymnt", "total_pymnt_inv", "total_rec_int", "total_rec_late_fee",
     "total_rec_prncp"}

\* C8: none of the eleven post-outcome columns is in the table clean_dataset
\* returns or in any table after the LeakageFilter, and the LeakageFilter
\* raises when one of the eleven is absent from the table that reaches it
C8_NoLeakageColumns ==
    /\ pc \in {"dtypes", "save", "done"} => df.columns \cap C8_PostOutcome = {}
    /\ output.written => output.columns \cap C8_PostOutcome = {}
    /\ (pc = "leakage" /\ ~(C8_PostOutcome \subseteq df.columns)) => ~remove_future_columns(df).ok
    /\ "Dataframe shape after removing future columns" \in {log[i] : i \in 1..Len(log)} =>
          C8_PostOutcome \subseteq raw.columns

\* a cleaned and saved table whose raw file held all eleven columns
C8_Witness ==
    /\ pc = "done"
    /\ C8_PostOutcome \subseteq raw.columns
    /\ Len(df.rows) > 0
    /\ output.written
    /\ output.columns \cap C8_PostOutcome = {}

C9_FullLog ==
    <<"Preparing and cleaning dataset", "Input dataframe shape",
      "Adding target column", "Target variable counts",
      "Dataframe shape after adding target column",
      "Fixing missing values", "Columns with missing values before cleaning",
      "Columns with missing values after cleaning",
      "Dataframe shape after fixing missing values",
      "Removing 11 columns", "Dataframe shape after removing future columns",
      "Fixing dtypes", "Dataframe shape after fixing dtypes",
      "Saving cleaned dataframe">>

\* C9: the stages run in the order label, resolve-missing, remove-leakage,
\* normalize-types; the output is written only after all four returned; once a
\* stage raises, no later stage runs and nothing is written
C9_FailFast ==
    /\ Len(log) <= Len(C9_FullLog) /\ log = SubSeq(C9_FullLog, 1, Len(log))
    /\ output.written => (pc = "done" /\ error = "none" /\ log = C9_FullLog)
    /\ pc = "failed" =>
          /\ ~output.written
          /\ error # "none"
          /\ log[Len(log)] \in {"Adding target column", "Columns with missing values before cleaning",
                                "Removing 11 columns", "Fixing dtypes"}

\* a run that failed in the last stage on a coercion error and wrote nothing
C9_Witness ==
    /\ pc = "failed"
    /\ error = "ValueError"
    /\ log[Len(log)] = "Fixing dtypes"
    /\ ~output.written

C10_Digit(a) == SubSeq(Digits, a + 1, a + 1)

\* a term "NN months" (a leading blank allowed), an emp_length "10+ years",
\* "< 1 year", "N year" or "N years"
C10_TermMatches(c) ==
    /\ c.t = "str"
    /\ \E a, b \in 0..9 :
          c.s \in {C10_Digit(a) \o C10_Digit(b) \o " months",
                   " " \o C10_Digit(a) \o C10_Digit(b) \o " months"}
C10_EmpLengthMatches(c) ==
    \/ isna(c)
    \/ /\ c.t = "str"
       /\ \/ c.s \in {"10+ years", "< 1 year"}
          \/ \E a \in 0..9 : c.s \in {C10_Digit(a) \o " year", C10_Digit(a) \o " years"}

\* C10 as stated: fix_dtypes returns only when every term and every emp_length
\* matches the expected pattern (any other value is a fatal coercion error)
C10_NonMatchingIsFatal ==
    Cleaned =>
        \A i \in 1..Len(df.rows) :
            /\ C10_TermMatches(RawRow(df.rows[i]).v["term"])
            /\ C10_EmpLengthMatches(RawRow(df.rows[i]).v["emp_length"])

\* the one or two characters s spell the integer n (blank-padded or signed)
C10_Spells(s, n) ==
    \/ \E a, b \in 0..9 : n = 10 * a + b /\ s = C10_Digit(a) \o C10_Digit(b)
    \/ \E a \in 0..9 :
          /\ n = a
          /\ s \in {C10_Digit(a), C10_Digit(a) \o " ", " " \o C10_Digit(a), "+" \o C10_Digit(a)}
    \/ \E a \in 0..9 : n = 0 - a /\ s = "-" \o C10_Digit(a)

\* characters 1-2 of a raw term; the first two characters of a raw emp_length
\* after the "0 years" fill and the two rewrites
C10_TermChars(c) == IF c.t = "str" THEN Slice(c.s, 1, 3) ELSE ""
C10_EmpLengthChars(c) ==
    IF isna(c) THEN "0 "
    ELSE IF c.t # "str" THEN ""
    ELSE IF c.s = "10+ years" THEN "10"
    ELSE IF c.s = "< 1 year" THEN "0 "
    ELSE Slice(c.s, 0, 2)

C10_Range == (0 - 9)..99

\* C10 amended: fix_dtypes returns only when, in every row, characters 1-2 of
\* term and the first two characters of the rewritten emp_length spell an
\* integer, and then term_months and emp_length are those integers, whether or
\* not the value has the expected pattern; a ValueError of fix_dtypes means
\* that some row's characters (or a date) could not be converted.
C10_FixedOffsetCoercion ==
    /\ Cleaned =>
          \A i \in 1..Len(df.rows) :
              LET r == df.rows[i]
              IN /\ r.v["term_months"].t = "int"
                 /\ C10_Spells(C10_TermChars(RawRow(r).v["term"]), r.v["term_months"].n)
                 /\ r.v["emp_length"].t = "int"
                 /\ C10_Spells(C10_EmpLengthChars(RawRow(r).v["emp_length"]), r.v["emp_length"].n)
    /\ (pc = "failed" /\ log[Len(log)] = "Fixing dtypes" /\ error = "ValueError") =>
          \E i \in 1..Len(df.rows) :
              LET o == RawRow(df.rows[i])
              IN \/ \A n \in C10_Range : ~C10_Spells(C10_TermChars(o.v["term"]), n)
                 \/ \A n \in C10_Range : ~C10_Spells(C10_EmpLengthChars(o.v["emp_length"]), n)
                 \/ \E c \in datetime_cols : ~ToDatetimeOk(o.v[c])

\* a cleaned table that kept a row whose term "136 months" became 36 and a row
\* whose emp_length "8 months" became 8
C10_Witness ==
    /\ pc = "done"
    /\ \E i, j \in 1..Len(df.rows) :
          /\ EqStr(RawRow(df.rows[i]).v["term"], "136 months")
          /\ df.rows[i].v["term_months"] = IntCell(36)
          /\ EqStr(RawRow(df.rows[j]).v["emp_length"], "8 months")
          /\ df.rows[j].v["emp_length"] = IntCell(8)

====
